---- MODULE Spec2Model ----
(***************************************************************************)
(* Branchformer encoder (speechbrain/lobes/models/transformer/             *)
(* Branchformer.py): construction of the encoder layers and of the stack,  *)
(* and the forward pass of the stack with layer drop, attention collection *)
(* and hidden-state capture.                                               *)
(*                                                                         *)
(* Tensors are abstracted to the history of what was applied to the raw    *)
(* input: the ordered list of layer indices that transformed it and        *)
(* whether the final normalization was applied.  Feature widths are kept   *)
(* as integers.  Probabilities and random draws are counted in quarters    *)
(* (2 stands for 0.5).                                                     *)
(***************************************************************************)
EXTENDS Integers, Sequences, FiniteSets, TLC

\* ---------------------------------------------------------------- bounds
MaxLayers == 2
MaxDim == 2
MaxCalls == 2

\* ---------------------------------------------------------------- inputs
KnownAttentionTypes ==
    {"regularMHA", "RelPosMHAXL", "hypermixing", "SummaryMixing",
     "fastattention", "cnnonly"}

\* attention_type is an unchecked str argument: one tag outside the known set
AttentionTypeInputs == KnownAttentionTypes \cup {"conformerMHA"}

Modes == {"SummaryMixing", "SummaryMixing-lite"}

Dims == 1..MaxDim

SummaryHidDims == {<<>>, <<1>>}

\* layerdrop_prob, in quarters: 0.0 and 0.5
LayerdropProbs == {0, 2}

\* values rng.random can return, in quarters: 0.25, 0.5, 0.75
RandomValues == {1, 2, 3}

\* ---------------------------------------------------------------- tensors
Src == [applied |-> <<>>, normed |-> FALSE]

\* the output of encoder layer idx on input x (a new tensor)
LayerOutput(idx, x) == [x EXCEPT !.applied = Append(@, idx)]

\* self.norm(output)
FinalLayerNorm(x) == [x EXCEPT !.normed = TRUE]

None == [kind |-> "None", layer |-> -1, input |-> <<>>]

\* the attention artifact the strategy of layer idx returns for input x
StrategyAttn(idx, x) == [kind |-> "attn", layer |-> idx, input |-> x.applied]

Last(s) == s[Len(s)]

\* ------------------------------------------------- BranchformerEncoderLayer
\* output feature width of the global branch (mha_layer)
MhaOutWidth(attention_type, mode, d_model, local_proj_out_dim, summary_out_dim) ==
    IF attention_type = "SummaryMixing"
    THEN IF mode = "SummaryMixing"
         THEN local_proj_out_dim + summary_out_dim
         ELSE summary_out_dim
    ELSE d_model

\* output feature width of ConvolutionBranch: post_channel_proj maps back to input_size
ConvOutWidth(input_size) == input_size

\* input width of merge_proj as built by __init__ (0: merge_proj never assigned)
MergeInWidth(attention_type, d_model, local_proj_out_dim, summary_out_dim) ==
    IF attention_type \in {"regularMHA", "RelPosMHAXL", "hypermixing", "fastattention"}
    THEN 2 * d_model
    ELSE IF attention_type = "SummaryMixing"
         THEN local_proj_out_dim + summary_out_dim
         ELSE 0

\* output width of merge_proj as built by __init__ (0: merge_proj never assigned)
MergeOutWidth(attention_type, d_model, summary_hid_dim) ==
    IF attention_type \in {"regularMHA", "RelPosMHAXL", "hypermixing", "fastattention"}
    THEN d_model
    ELSE IF attention_type = "SummaryMixing"
         THEN Last(summary_hid_dim \o <<d_model>>)
         ELSE 0

\* BranchformerEncoderLayer.__init__: never raises; an attention_type that
\* matches no branch of the if/elif chain leaves mha_layer and merge_proj unset
LayerInit(d_model, attention_type, mode, local_proj_out_dim, summary_hid_dim, summary_out_dim) ==
    [attention_type |-> attention_type,
     mode           |-> mode,
     d_model        |-> d_model,
     has_mha_layer  |-> attention_type \in KnownAttentionTypes \ {"cnnonly"},
     has_norm_mhsa  |-> attention_type # "cnnonly",
     mha_out        |-> MhaOutWidth(attention_type, mode, d_model,
                                    local_proj_out_dim, summary_out_dim),
     merge_in       |-> MergeInWidth(attention_type, d_model,
                                     local_proj_out_dim, summary_out_dim),
     merge_out      |-> MergeOutWidth(attention_type, d_model, summary_hid_dim)]

\* BranchformerEncoderLayer._forward_mha_branch
ForwardMhaBranchMutC6(layer, idx, x) ==
    [width |-> layer.mha_out, self_attn |-> None]

ForwardMhaBranch(layer, idx, x) ==
    IF layer.attention_type = "SummaryMixing"
    THEN [width |-> layer.mha_out, self_attn |-> None]
    ELSE [width |-> layer.mha_out, self_attn |-> StrategyAttn(idx, x)]

\* BranchformerEncoderLayer.forward
LayerForward(layer, idx, x) ==
    IF layer.attention_type = "cnnonly"
    THEN [ok |-> TRUE, x |-> LayerOutput(idx, x), self_attn |-> None, error |-> "none"]
    ELSE IF ~layer.has_mha_layer
    THEN [ok |-> FALSE, x |-> x, self_attn |-> None, error |-> "AttributeError"]
    ELSE LET br == ForwardMhaBranch(layer, idx, x) IN
         IF br.width + ConvOutWidth(layer.d_model) # layer.merge_in
            \/ layer.merge_out # layer.d_model
         THEN [ok |-> FALSE, x |-> x, self_attn |-> None, error |-> "RuntimeError"]
         ELSE [ok |-> TRUE, x |-> LayerOutput(idx, x), self_attn |-> br.self_attn,
               error |-> "none"]

\* ------------------------------------------------------ BranchformerEncoder
VARIABLES
    built,             \* the encoder object exists
    self,              \* attention_type, layerdrop_prob, output_hidden_states
    layers,            \* self.layers
    training,          \* self.training
    rng,               \* self.rng: number of values drawn from it so far
    pc,                \* position of the forward call
    pos_embs,          \* argument: TRUE when a tensor is supplied, FALSE when None
    dynchunktrain_config, \* argument: TRUE when not None
    output,
    keep_probs,
    attention_lst,
    hidden_state_lst,
    i,                 \* 0-based index of the loop
    ret,               \* value returned by forward
    err,               \* exception raised by forward
    invoked,           \* history: the enc_layer calls of this forward, with inputs
    norms,             \* history: the arguments self.norm was called with
    rng_entry,         \* history: rng when this forward was entered
    calls              \* history: number of forward calls made

vars == <<built, self, layers, training, rng, pc, pos_embs, dynchunktrain_config,
          output, keep_probs, attention_lst, hidden_state_lst, i, ret, err,
          invoked, norms, rng_entry, calls>>

locals == <<output, keep_probs, attention_lst, hidden_state_lst, i>>
object == <<built, self, layers>>
history == <<invoked, norms, rng_entry, calls>>

NoKeepProbs == [isNone |-> TRUE, vals |-> <<>>]
NoRet == [returned |-> FALSE, output |-> Src, attention_lst |-> <<>>,
          has_hidden |-> FALSE, hidden_state_lst |-> <<>>]

Init ==
    /\ built = FALSE
    /\ self = [attention_type |-> "RelPosMHAXL", layerdrop_prob |-> 0,
               output_hidden_states |-> FALSE]
    /\ layers = <<>>
    /\ training = TRUE
    /\ rng = 0
    /\ pc = "idle"
    /\ pos_embs = FALSE
    /\ dynchunktrain_config = FALSE
    /\ output = Src
    /\ keep_probs = NoKeepProbs
    /\ attention_lst = <<>>
    /\ hidden_state_lst = <<>>
    /\ i = 0
    /\ ret = NoRet
    /\ err = "none"
    /\ invoked = <<>>
    /\ norms = <<>>
    /\ rng_entry = 0
    /\ calls = 0

\* BranchformerEncoder.__init__
Construct ==
    /\ ~built
    /\ \E num_layers \in 0..MaxLayers, d_model \in Dims,
          attention_type \in AttentionTypeInputs,
          layerdrop_prob \in LayerdropProbs, output_hidden_states \in BOOLEAN :
       \E mode \in (IF attention_type = "SummaryMixing" THEN Modes ELSE {"SummaryMixing"}),
          local_proj_out_dim \in (IF attention_type = "SummaryMixing" THEN Dims ELSE {MaxDim}),
          summary_hid_dim \in (IF attention_type = "SummaryMixing" THEN SummaryHidDims ELSE {<<1>>}),
          summary_out_dim \in (IF attention_type = "SummaryMixing" THEN Dims ELSE {MaxDim}) :
          /\ layers' = [k \in 1..num_layers |->
                          LayerInit(d_model, attention_type, mode, local_proj_out_dim,
                                    summary_hid_dim, summary_out_dim)]
          /\ self' = [attention_type |-> attention_type,
                      layerdrop_prob |-> layerdrop_prob,
                      output_hidden_states |-> output_hidden_states]
    /\ built' = TRUE
    /\ rng' = 0
    /\ training' = TRUE
    /\ UNCHANGED <<pc, pos_embs, dynchunktrain_config, locals, ret, err, history>>

\* train() / eval() between forward calls
SetTraining ==
    /\ built
    /\ pc \in {"idle", "returned", "raised"}
    /\ training' = ~training
    /\ pc' = "idle"
    /\ UNCHANGED <<object, rng, pos_embs, dynchunktrain_config, locals, ret, err,
                   history>>

\* entry of BranchformerEncoder.forward
Forward ==
    /\ built
    /\ pc \in {"idle", "returned", "raised"}
    /\ calls < MaxCalls
    /\ pos_embs' \in BOOLEAN
    /\ dynchunktrain_config' \in BOOLEAN
    /\ pc' = "assert"
    /\ output' = Src
    /\ keep_probs' = NoKeepProbs
    /\ attention_lst' = <<>>
    /\ hidden_state_lst' = <<>>
    /\ i' = 0
    /\ ret' = NoRet
    /\ err' = "none"
    /\ invoked' = <<>>
    /\ norms' = <<>>
    /\ rng_entry' = rng
    /\ calls' = calls + 1
    /\ UNCHANGED <<object, training, rng>>

\* assert dynchunktrain_config is None
AssertNoDynChunkMutC3 ==
    /\ pc = "assert"
    /\ pc' = "pos_embs"
    /\ UNCHANGED <<object, training, rng, pos_embs, dynchunktrain_config, locals,
                   ret, err, history>>

AssertNoDynChunk ==
    /\ pc = "assert"
    /\ IF dynchunktrain_config
       THEN pc' = "raised" /\ err' = "AssertionError"
       ELSE pc' = "pos_embs" /\ err' = err
    /\ UNCHANGED <<object, training, rng, pos_embs, dynchunktrain_config, locals,
                   ret, history>>

\* if self.attention_type == "RelPosMHAXL": if pos_embs is None: raise ValueError
CheckPosEmbsMutC4 ==
    /\ pc = "pos_embs"
    /\ pc' = "draw"
    /\ UNCHANGED <<object, training, rng, pos_embs, dynchunktrain_config, locals,
                   ret, err, history>>

CheckPosEmbs ==
    /\ pc = "pos_embs"
    /\ IF self.attention_type = "RelPosMHAXL" /\ ~pos_embs
       THEN pc' = "raised" /\ err' = "ValueError"
       ELSE pc' = "draw" /\ err' = err
    /\ UNCHANGED <<object, training, rng, pos_embs, dynchunktrain_config, locals,
                   ret, history>>

\* the condition under which forward calls self.rng.random(len(self.layers))
DrawsKeepProbsMutC9(layerdrop_prob, is_training) == TRUE

DrawsKeepProbs(layerdrop_prob, is_training) == layerdrop_prob > 0

\* output = src; keep_probs = ...; attention_lst = []; hidden_state_lst = [output]
DrawKeepProbs ==
    /\ pc = "draw"
    /\ output' = Src
    /\ IF DrawsKeepProbs(self.layerdrop_prob, training)
       THEN /\ \E vals \in [1..Len(layers) -> RandomValues] :
                 keep_probs' = [isNone |-> FALSE, vals |-> vals]
            /\ rng' = rng + Len(layers)
       ELSE /\ keep_probs' = NoKeepProbs
            /\ rng' = rng
    /\ attention_lst' = <<>>
    /\ hidden_state_lst' = IF self.output_hidden_states THEN <<Src>> ELSE <<>>
    /\ i' = 0
    /\ pc' = "loop"
    /\ UNCHANGED <<object, training, pos_embs, dynchunktrain_config, ret, err, history>>

\* the condition of the if statement in the layer loop (idx is 0-based)
LayerExecutesMutC5(is_training, layerdrop_prob, kp, idx) ==
    \/ layerdrop_prob = 0
    \/ (~kp.isNone /\ kp.vals[idx + 1] > layerdrop_prob)

LayerExecutes(is_training, layerdrop_prob, kp, idx) ==
    \/ ~is_training
    \/ layerdrop_prob = 0
    \/ kp.vals[idx + 1] > layerdrop_prob

\* one iteration of: for i, enc_layer in enumerate(self.layers)
LoopBodyMutC7 ==
    /\ pc = "loop"
    /\ i < Len(layers)
    /\ LET r == LayerForward(layers[i + 1], i, output) IN
       /\ invoked' = Append(invoked, [layer |-> i, input |-> output])
       /\ IF r.ok
          THEN /\ output' = r.x
               /\ IF LayerExecutes(training, self.layerdrop_prob, keep_probs, i)
                  THEN /\ attention_lst' = Append(attention_lst, r.self_attn)
                       /\ hidden_state_lst' = IF self.output_hidden_states
                                              THEN Append(hidden_state_lst, r.x)
                                              ELSE hidden_state_lst
                  ELSE UNCHANGED <<attention_lst, hidden_state_lst>>
               /\ i' = i + 1
               /\ UNCHANGED <<pc, err>>
          ELSE /\ pc' = "raised"
               /\ err' = r.error
               /\ UNCHANGED <<output, attention_lst, hidden_state_lst, i>>
    /\ UNCHANGED <<object, training, rng, pos_embs, dynchunktrain_config, keep_probs,
                   ret, norms, rng_entry, calls>>

LoopBodyMutC10 ==
    /\ pc = "loop"
    /\ i < Len(layers)
    /\ IF LayerExecutes(training, self.layerdrop_prob, keep_probs, i)
       THEN LET r == LayerForward(layers[i + 1], i, output) IN
            /\ invoked' = Append(invoked, [layer |-> i, input |-> output])
            /\ IF r.ok
               THEN /\ output' = r.x
                    /\ attention_lst' = Append(attention_lst, r.self_attn)
                    /\ hidden_state_lst' = IF self.output_hidden_states
                                           THEN Append(hidden_state_lst, r.x)
                                           ELSE hidden_state_lst
                    /\ i' = i + 1
                    /\ UNCHANGED <<pc, err>>
               ELSE /\ pc' = "raised"
                    /\ err' = r.error
                    /\ UNCHANGED <<output, attention_lst, hidden_state_lst, i>>
       ELSE /\ i' = i + 1
            /\ hidden_state_lst' = IF self.output_hidden_states
                                   THEN Append(hidden_state_lst, output)
                                   ELSE hidden_state_lst
            /\ UNCHANGED <<output, attention_lst, pc, err, invoked>>
    /\ UNCHANGED <<object, training, rng, pos_embs, dynchunktrain_config, keep_probs,
                   ret, norms, rng_entry, calls>>

LoopBody ==
    /\ pc = "loop"
    /\ i < Len(layers)
    /\ IF LayerExecutes(training, self.layerdrop_prob, keep_probs, i)
       THEN LET r == LayerForward(layers[i + 1], i, output) IN
            /\ invoked' = Append(invoked, [layer |-> i, input |-> output])
            /\ IF r.ok
               THEN /\ output' = r.x
                    /\ attention_lst' = Append(attention_lst, r.self_attn)
                    /\ hidden_state_lst' = IF self.output_hidden_states
                                           THEN Append(hidden_state_lst, r.x)
                                           ELSE hidden_state_lst
                    /\ i' = i + 1
                    /\ UNCHANGED <<pc, err>>
               ELSE /\ pc' = "raised"
                    /\ err' = r.error
                    /\ UNCHANGED <<output, attention_lst, hidden_state_lst, i>>
       ELSE /\ i' = i + 1
            /\ UNCHANGED <<output, attention_lst, hidden_state_lst, pc, err, invoked>>
    /\ UNCHANGED <<object, training, rng, pos_embs, dynchunktrain_config, keep_probs,
                   ret, norms, rng_entry, calls>>

\* output = self.norm(output)
FinalNorm ==
    /\ pc = "loop"
    /\ i = Len(layers)
    /\ norms' = Append(norms, output)
    /\ output' = FinalLayerNorm(output)
    /\ pc' = "return"
    /\ UNCHANGED <<object, training, rng, pos_embs, dynchunktrain_config, keep_probs,
                   attention_lst, hidden_state_lst, i, ret, err, invoked, rng_entry,
                   calls>>

\* return output, attention_lst[, hidden_state_lst]
Return ==
    /\ pc = "return"
    /\ ret' = [returned |-> TRUE, output |-> output, attention_lst |-> attention_lst,
               has_hidden |-> self.output_hidden_states,
               hidden_state_lst |-> hidden_state_lst]
    /\ pc' = "returned"
    /\ UNCHANGED <<object, training, rng, pos_embs, dynchunktrain_config, locals, err,
                   history>>

Next ==
    \/ Construct
    \/ SetTraining
    \/ Forward
    \/ AssertNoDynChunk
    \/ CheckPosEmbs
    \/ DrawKeepProbs
    \/ LoopBody
    \/ FinalNorm
    \/ Return

Spec == Init /\ [][Next]_vars

\* ---------------------------------------------------------------- properties
InLoopOrAfter == pc \in {"loop", "return", "returned"}

\* the layer indices of the enc_layer calls made so far by this forward
InvokedLayers == [k \in 1..Len(invoked) |-> invoked[k].layer]

\* the tensor produced by the enc_layer calls made so far
Produced ==
    IF invoked = <<>> THEN Src
    ELSE LayerOutput(Last(invoked).layer, Last(invoked).input)

AllLayers == [k \in 1..Len(layers) |-> k - 1]

\* C1: with output_hidden_states=True every forward call that returns hands
\* back a hidden-state list of exactly L+1 entries whose first entry is src.
C1_HiddenStatesLength ==
    (pc = "returned" /\ ret.has_hidden) =>
        /\ Len(ret.hidden_state_lst) = Len(layers) + 1
        /\ ret.hidden_state_lst[1] = Src

\* C2: no stack (and no layer) with an attention_type outside the six known
\* tags ever exists, so no forward call is made on one.
C2_UnknownTypeRejected ==
    built =>
        /\ self.attention_type \in KnownAttentionTypes
        /\ \A k \in 1..Len(layers) : layers[k].attention_type \in KnownAttentionTypes

\* C3: a forward call with a non-None dynchunktrain_config never gets past the
\* assert: it raises before any random value is drawn, any layer is invoked,
\* any list is filled or anything is returned.
C3_DynChunkAlwaysFails ==
    (dynchunktrain_config /\ pc \notin {"idle", "assert"}) =>
        /\ pc = "raised"
        /\ err = "AssertionError"
        /\ rng = rng_entry
        /\ keep_probs.isNone
        /\ invoked = <<>>
        /\ norms = <<>>
        /\ attention_lst = <<>>
        /\ hidden_state_lst = <<>>
        /\ ~ret.returned

C3_Witness ==
    /\ pc = "raised"
    /\ err = "AssertionError"
    /\ dynchunktrain_config
    /\ self.layerdrop_prob > 0
    /\ training
    /\ Len(layers) > 0
    /\ self.attention_type = "RelPosMHAXL"
    /\ ~pos_embs

\* C4: forward on a RelPosMHAXL stack with pos_embs=None raises before the
\* layer loop: nothing is drawn, no layer is invoked, nothing is recorded and
\* nothing is returned.
C4_RelPosNeedsPosEmbs ==
    (built /\ self.attention_type = "RelPosMHAXL" /\ ~pos_embs
       /\ pc \notin {"idle", "assert", "pos_embs"}) =>
        /\ pc = "raised"
        /\ err = (IF dynchunktrain_config THEN "AssertionError" ELSE "ValueError")
        /\ rng = rng_entry
        /\ keep_probs.isNone
        /\ invoked = <<>>
        /\ norms = <<>>
        /\ attention_lst = <<>>
        /\ hidden_state_lst = <<>>
        /\ ~ret.returned

C4_Witness ==
    /\ pc = "raised"
    /\ err = "ValueError"
    /\ self.attention_type = "RelPosMHAXL"
    /\ ~pos_embs
    /\ self.layerdrop_prob > 0
    /\ training
    /\ self.output_hidden_states
    /\ Len(layers) > 0

\* C5: with layerdrop_prob == 0 or outside training mode, a forward call that
\* returns has invoked every layer exactly once, in index order, each on the
\* previous layer's output, whatever the random draws were.
C5_AllLayersRun ==
    (pc = "returned" /\ (self.layerdrop_prob = 0 \/ ~training)) =>
        /\ InvokedLayers = AllLayers
        /\ \A k \in 1..Len(invoked) :
              invoked[k].input = [applied |-> SubSeq(AllLayers, 1, k - 1),
                                  normed |-> FALSE]
        /\ ret.output = [applied |-> AllLayers, normed |-> TRUE]

C5_Witness ==
    /\ pc = "returned"
    /\ ~training
    /\ self.layerdrop_prob > 0
    /\ Len(layers) >= 2
    /\ ~keep_probs.isNone
    /\ \A k \in 1..Len(layers) : keep_probs.vals[k] < self.layerdrop_prob
    /\ InvokedLayers = AllLayers

\* C6: the returned attention list has one entry per layer that executed, in
\* layer order and none for a skipped layer; the entry is None for cnnonly and
\* SummaryMixing and the strategy's own artifact for every other type.
C6_AttentionList ==
    pc = "returned" =>
        /\ Len(ret.attention_lst) = Len(invoked)
        /\ \A k \in 1..Len(invoked) :
              /\ k > 1 => invoked[k - 1].layer < invoked[k].layer
              /\ ret.attention_lst[k] =
                    IF self.attention_type \in {"cnnonly", "SummaryMixing"}
                    THEN None
                    ELSE StrategyAttn(invoked[k].layer, invoked[k].input)
        /\ \A j \in 0..(Len(layers) - 1) :
              (\E k \in 1..Len(invoked) : invoked[k].layer = j)
                 <=> (~training \/ self.layerdrop_prob = 0
                        \/ keep_probs.vals[j + 1] > self.layerdrop_prob)

C6_Witness ==
    /\ pc = "returned"
    /\ self.attention_type = "regularMHA"
    /\ Len(layers) >= 2
    /\ Len(ret.attention_lst) = 1
    /\ ret.attention_lst[1].kind = "attn"
    /\ ret.attention_lst[1].layer = 1

\* C7: a skipped layer is never invoked and leaves the sequence tensor as it
\* was, so each executed layer receives the output of the last executed layer
\* (src if none); the final normalization is applied exactly once, after the
\* loop, to the last produced tensor (src when every layer was skipped).
C7_SkipIsIdentity ==
    InLoopOrAfter =>
        /\ \A k \in 1..Len(invoked) :
              /\ invoked[k].layer < i
              /\ (~training \/ self.layerdrop_prob = 0
                    \/ keep_probs.vals[invoked[k].layer + 1] > self.layerdrop_prob)
              /\ invoked[k].input =
                    IF k = 1 THEN Src
                    ELSE LayerOutput(invoked[k - 1].layer, invoked[k - 1].input)
        /\ Produced.applied = InvokedLayers
        /\ pc = "loop" => (output = Produced /\ norms = <<>>)
        /\ pc \in {"return", "returned"} =>
              (norms = <<Produced>> /\ output = FinalLayerNorm(Produced))
        /\ pc = "returned" => ret.output = FinalLayerNorm(Produced)

C7_Witness ==
    /\ pc = "returned"
    /\ Len(layers) >= 2
    /\ InvokedLayers = <<1>>
    /\ invoked[1].input = Src
    /\ norms = <<[applied |-> <<1>>, normed |-> FALSE]>>

C7_WitnessAllSkipped ==
    /\ pc = "returned"
    /\ Len(layers) >= 1
    /\ invoked = <<>>
    /\ norms = <<Src>>
    /\ ret.output = FinalLayerNorm(Src)

\* C8: every layer built with a global branch has a merge projection whose
\* input width is the global branch's output width plus the convolution
\* branch's output width, and whose output width is d_model.
C8_MergeWidths ==
    \A k \in 1..Len(layers) :
        layers[k].has_mha_layer =>
            /\ layers[k].merge_in = layers[k].mha_out + ConvOutWidth(layers[k].d_model)
            /\ layers[k].merge_out = layers[k].d_model

\* C9 (as stated): forward draws from the generator only when layerdrop_prob > 0
\* and the stack is in training mode; otherwise the generator's state after
\* the call equals its state before.
C9_DrawsOnlyWhenTraining ==
    (InLoopOrAfter /\ ~(self.layerdrop_prob > 0 /\ training)) => rng = rng_entry

\* C9 (amended): forward draws from the stack's generator exactly when
\* layerdrop_prob > 0, in training mode or not: one value per layer, once,
\* before the loop; in training mode with layerdrop_prob > 0 layer j executes
\* iff its draw is strictly greater than layerdrop_prob; with
\* layerdrop_prob == 0 the call leaves the generator as it found it, and the
\* generator is never rewound.
C9_DrawsWhenLayerdrop ==
    /\ rng >= rng_entry
    /\ pc \in {"assert", "pos_embs", "draw"} => rng = rng_entry
    /\ (pc = "raised" /\ err \in {"AssertionError", "ValueError"}) => rng = rng_entry
    /\ (InLoopOrAfter \/ (pc = "raised" /\ err \notin {"AssertionError", "ValueError"})) =>
          IF self.layerdrop_prob > 0
          THEN /\ rng = rng_entry + Len(layers)
               /\ ~keep_probs.isNone
               /\ Len(keep_probs.vals) = Len(layers)
          ELSE /\ rng = rng_entry
               /\ keep_probs.isNone
    /\ (InLoopOrAfter /\ self.layerdrop_prob > 0 /\ training) =>
          \A j \in 0..(i - 1) :
              (\E k \in 1..Len(invoked) : invoked[k].layer = j)
                 <=> keep_probs.vals[j + 1] > self.layerdrop_prob

C9_Witness ==
    /\ pc = "returned"
    /\ ~training
    /\ self.layerdrop_prob > 0
    /\ Len(layers) >= 1
    /\ rng = rng_entry + Len(layers)
    /\ rng_entry > 0

\* C10: with output_hidden_states=True, throughout the layer loop the
\* hidden-state list is one longer than the attention list (executed layers
\* plus one), entry k+1 is the un-normalized output of the k-th executed layer,
\* and the final normalization is applied to the last hidden-state entry.
C10_HiddenStatesTrackAttention ==
    (InLoopOrAfter /\ self.output_hidden_states) =>
        /\ Len(hidden_state_lst) = Len(attention_lst) + 1
        /\ Len(attention_lst) = Len(invoked)
        /\ hidden_state_lst[1] = Src
        /\ \A k \in 1..Len(invoked) :
              hidden_state_lst[k + 1] = LayerOutput(invoked[k].layer, invoked[k].input)
        /\ \A k \in 1..Len(hidden_state_lst) : ~hidden_state_lst[k].normed
        /\ pc = "loop" => Last(hidden_state_lst) = output
        /\ pc \in {"return", "returned"} => norms = <<Last(hidden_state_lst)>>
        /\ pc = "returned" => ret.hidden_state_lst = hidden_state_lst

C10_Witness ==
    /\ pc = "returned"
    /\ self.output_hidden_states
    /\ Len(layers) >= 2
    /\ Len(ret.hidden_state_lst) = 2
    /\ ret.hidden_state_lst[2] = [applied |-> <<1>>, normed |-> FALSE]
    /\ norms = <<ret.hidden_state_lst[2]>>

====
